---- MODULE Spec2Model ----
(***************************************************************************)
(* Product search service: Sync Engine (full sync, single-product sync,    *)
(* delete) and Ranked Retrieval Engine (vector search with pagination and  *)
(* the keyword fallback of the /search endpoint).                          *)
(*                                                                         *)
(* Text is a sequence of one-character strings.  Scores and distances are  *)
(* integers in hundredths (a distance of 1.2 is 120).                      *)
(***************************************************************************)
EXTENDS Integers, Sequences, FiniteSets, TLC

VARIABLES
    product_collection, \* Catalog Store (MongoDB "products"): a set of product records
    deleted,            \* ObjectIds whose product was deleted from the Catalog Store
    collection,         \* Vector Index (ChromaDB "products"): a set of indexed documents
    pc,                 \* per request thread: position in its handler
    loc,                \* per request thread: the handler's local variables
    faults,             \* number of upstream failures injected so far
    resp                \* the /search request in flight, then its response

vars == <<product_collection, deleted, collection, pc, loc, faults, resp>>

---------------------------------------------------------------------------
\* Bounds of the model

NumIds == 2          \* product ids in play
NumProcs == 2        \* concurrent request threads
MaxFaults == 1       \* upstream failures injected in one behaviour
batch_size == 1      \* products per batch of the full sync, scaled down from 100
MaxPage == 2         \* largest page requested
MaxLimit == 2        \* largest limit requested

Oids == 1..NumIds
Procs == 1..NumProcs

---------------------------------------------------------------------------
\* Strings

Lower(c) ==
    CASE c = "A" -> "a"
      [] c = "B" -> "b"
      [] c = "N" -> "n"
      [] OTHER -> c

LowerStr(s) == [i \in 1..Len(s) |-> Lower(s[i])]

IsSpace(c) == c = " "

\* \w of Python's re: letters, digits and the underscore
IsWordChar(c) == c \in {"a", "b", "n", "A", "B", "N", "5", "7", "_"}

\* s[i..] starts with t
MatchesAt(s, t, i) ==
    /\ i + Len(t) - 1 <= Len(s)
    /\ \A k \in 1..Len(t) : s[i + k - 1] = t[k]

\* Python's `t in s` on strings
Contains(s, t) == \E i \in 1..(Len(s) + 1) : MatchesAt(s, t, i)

RECURSIVE Join(_, _)
Join(parts, sep) ==
    IF parts = <<>> THEN <<>>
    ELSE IF Len(parts) = 1 THEN parts[1]
    ELSE parts[1] \o sep \o Join(Tail(parts), sep)

RECURSIVE Repeat(_, _)
Repeat(x, n) == IF n <= 0 THEN <<>> ELSE <<x>> \o Repeat(x, n - 1)

Max(a, b) == IF a >= b THEN a ELSE b
Min(a, b) == IF a <= b THEN a ELSE b

Digits == <<"0", "1", "2", "3", "4", "5", "6", "7", "8", "9">>

RECURSIVE IntStr(_)
IntStr(n) ==
    IF n < 10 THEN <<Digits[n + 1]>>
    ELSE IntStr(n \div 10) \o <<Digits[(n % 10) + 1]>>

---------------------------------------------------------------------------
\* Text Normalizer

\* re.sub(r'[^\w\s]', ' ', text)
StripPunct(s) ==
    [i \in 1..Len(s) |-> IF IsWordChar(s[i]) \/ IsSpace(s[i]) THEN s[i] ELSE " "]

\* re.sub(r'\s+', ' ', text): every run of whitespace becomes one space
RECURSIVE CollapseSpaces(_)
CollapseSpaces(s) ==
    IF s = <<>> THEN <<>>
    ELSE IF IsSpace(s[1]) /\ Len(s) > 1 /\ IsSpace(s[2]) THEN CollapseSpaces(Tail(s))
    ELSE IF IsSpace(s[1]) THEN <<" ">> \o CollapseSpaces(Tail(s))
    ELSE <<s[1]>> \o CollapseSpaces(Tail(s))

\* str.strip()
RECURSIVE Strip(_)
Strip(s) ==
    IF s = <<>> THEN <<>>
    ELSE IF IsSpace(s[1]) THEN Strip(Tail(s))
    ELSE IF IsSpace(s[Len(s)]) THEN Strip(SubSeq(s, 1, Len(s) - 1))
    ELSE s

preprocess_text(text) ==
    IF text = <<>> THEN <<>>
    ELSE Strip(CollapseSpaces(StripPunct(LowerStr(text))))

preprocess_query(query) == preprocess_text(query)

FieldOrder == <<"name", "brand", "description", "tags", "category", "gender", "price">>

\* int(weight) of FIELD_WEIGHTS: 4.0, 3.0, 2.5, 2.0, 1.5, 1.0, 0.5
FIELD_WEIGHTS ==
    [name |-> 4, brand |-> 3, description |-> 2, tags |-> 2,
     category |-> 1, gender |-> 1, price |-> 0]

extract_field_value(product, field) ==
    CASE field = "category" -> product.category.name
      [] field = "tags" -> Join(product.tags, <<" ">>)
      [] field = "price" -> IF product.price = 0 THEN <<>> ELSE IntStr(product.price)
      [] OTHER -> product[field]

FieldParts(product, field) ==
    LET value == extract_field_value(product, field)
        cleaned_value == preprocess_text(value)
    IN IF value # <<>> /\ cleaned_value # <<>>
       THEN Repeat(cleaned_value, Max(1, FIELD_WEIGHTS[field]))
       ELSE <<>>

RECURSIVE TextParts(_, _)
TextParts(product, i) ==
    IF i > Len(FieldOrder) THEN <<>>
    ELSE FieldParts(product, FieldOrder[i]) \o TextParts(product, i + 1)

create_searchable_text(product) == Join(TextParts(product, 1), <<" ">>)

extract_metadata(product) ==
    [name |-> product.name,
     brand |-> product.brand,
     category |-> extract_field_value(product, "category"),
     gender |-> product.gender,
     price |-> product.price,
     tags |-> Join(product.tags, <<"|">>),
     in_stock |-> product.in_stock]

---------------------------------------------------------------------------
\* Products of the Catalog Store

NoCategory == [name |-> <<>>]

\* The product contents in play.  Body 3 holds punctuation only: its
\* searchable text is empty.
Bodies ==
    << [name |-> <<"A", "!", "b">>, brand |-> <<"N">>, description |-> <<>>,
        tags |-> << <<"a">>, <<"b">> >>, category |-> [name |-> <<"B">>],
        gender |-> <<>>, price |-> 5, in_stock |-> TRUE],
       [name |-> <<"b", " ", " ", "a">>, brand |-> <<>>, description |-> <<"n">>,
        tags |-> <<>>, category |-> NoCategory,
        gender |-> <<>>, price |-> 0, in_stock |-> FALSE],
       [name |-> <<"!", "!">>, brand |-> <<>>, description |-> <<>>,
        tags |-> <<>>, category |-> NoCategory,
        gender |-> <<>>, price |-> 0, in_stock |-> TRUE] >>

BodyIds == 1..Len(Bodies)

\* The record the Catalog Store holds for ObjectId oid with contents b
Product(oid, b) ==
    [_id |-> oid, name |-> Bodies[b].name, brand |-> Bodies[b].brand,
     description |-> Bodies[b].description, tags |-> Bodies[b].tags,
     category |-> Bodies[b].category, gender |-> Bodies[b].gender,
     price |-> Bodies[b].price, in_stock |-> Bodies[b].in_stock]

AllProducts == {Product(oid, b) : oid \in Oids, b \in BodyIds}

\* searchable_text = create_searchable_text(product), tabulated over the
\* products in play
searchable_text == [product \in AllProducts |-> create_searchable_text(product)]

\* Product ids as the 24-hex strings of the HTTP requests and of the Vector
\* Index; ObjectId and StrOid convert between them and the store's ObjectIds.
IdNames == <<"p1", "p2", "p3", "p4">>

ProductIds == {IdNames[i] : i \in Oids}

StrOid(oid) == IdNames[oid]

ObjectId(s) == CHOOSE i \in 1..Len(IdNames) : IdNames[i] = s

---------------------------------------------------------------------------
\* Catalog Store (pymongo)

MongoIds(coll) == {d._id : d \in coll}

\* find_one({"_id": oid}): the set holding the product, empty when absent
find_one(coll, oid) == {d \in coll : d._id = oid}

\* Every ordering of a finite set
RECURSIVE Perms(_)
Perms(S) ==
    IF S = {} THEN {<<>>}
    ELSE UNION {{<<x>> \o t : t \in Perms(S \ {x})} : x \in S}

\* list(find()): every product, in the order the store answers in.  A find
\* without a sort has no defined order: each ordering is a possible answer.
find_all(coll) == Perms(coll)

---------------------------------------------------------------------------
\* Vector Index (chromadb)

ChromaIds(coll) == {d.id : d \in coll}

\* Mutant of ChromaDelete: the whole collection is emptied
ChromaDelete_All(coll, ids) == {}

\* collection.delete(ids=...): an id that is not stored is skipped
ChromaDelete(coll, ids) == {d \in coll : d.id \notin ids}

\* collection.add(...): a record whose id is already stored is ignored
ChromaAdd(coll, docs) == coll \cup {d \in docs : d.id \notin ChromaIds(coll)}

\* Mutant of ChromaUpsert: the record is added beside the one stored under the id
ChromaUpsert_Duplicate(coll, doc) == coll \cup {doc}

\* collection.upsert(...): replaces the record stored under the id
ChromaUpsert(coll, doc) == {d \in coll : d.id # doc.id} \cup {doc}

\* The indexed document written for a product under id
IndexedDoc(id, product) ==
    [id |-> id,
     document |-> searchable_text[product],
     metadata |-> extract_metadata(product)]

---------------------------------------------------------------------------
\* Request threads

IdleLoc ==
    [op |-> "none", product_id |-> "", all_ids |-> {}, products |-> <<>>,
     i |-> 0, product |-> {}, ret |-> "none", status |-> 0, log |-> {},
     deleted_at_start |-> {}, disturbed |-> FALSE]

\* No /search request is in flight
NoResp == [at |-> "idle", status |-> 0]

\* products[i:i + batch_size], i counted from 0
Slice(seq, from, to) ==
    SubSeq(seq, Max(from, 0) + 1, Min(to, Len(seq)))

Range(seq) == {seq[k] : k \in 1..Len(seq)}

\* The products of a batch whose embedding is computed
Embedded(batch) ==
    {p \in Range(batch) : Strip(searchable_text[p]) # <<>>}

\* Mutant of process_product_batch: products without searchable text are kept
process_product_batch_NoSkip(batch, failing) ==
    {IndexedDoc(StrOid(p._id), p) : p \in {q \in Range(batch) : q._id \notin failing}}

\* Mutant of process_product_batch: one failing embedding loses the whole batch
process_product_batch_AbortOnError(batch, failing) ==
    IF failing # {} THEN {}
    ELSE {IndexedDoc(StrOid(p._id), p) : p \in Embedded(batch)}

\* The records process_product_batch hands to collection.add; failing holds
\* the ObjectIds of the products whose model.encode raises
process_product_batch(batch, failing) ==
    {IndexedDoc(StrOid(p._id), p) : p \in {q \in Embedded(batch) : q._id \notin failing}}

\* The locals l after thread p (0: the shop) has called a write of a store:
\* the full syncs of the other threads that have logged no error are marked
\* as having run beside a write
Disturb(l, p) ==
    [q \in Procs |->
        IF q # p /\ l[q].op = "sync" /\ l[q].log = {} /\ l[q].status # 500
        THEN [l[q] EXCEPT !.disturbed = TRUE]
        ELSE l[q]]

\* The locals of a full sync that logs an error: what is recorded of its run
\* for the syncs without errors is dropped
Logged(l, entry) ==
    [l EXCEPT !.log = @ \cup {entry}, !.disturbed = FALSE, !.deleted_at_start = {}]

---------------------------------------------------------------------------
\* Catalog Store mutations (made by the shop, outside this service)

CatalogInsert(oid, b) ==
    /\ oid \notin MongoIds(product_collection)
    /\ oid \notin deleted
    /\ product_collection' = product_collection \cup {Product(oid, b)}
    /\ loc' = Disturb(loc, 0)
    /\ UNCHANGED <<deleted, collection, pc, faults, resp>>

CatalogUpdate(oid, b) ==
    /\ oid \in MongoIds(product_collection)
    /\ Product(oid, b) \notin product_collection
    /\ product_collection' =
           {d \in product_collection : d._id # oid} \cup {Product(oid, b)}
    /\ loc' = Disturb(loc, 0)
    /\ UNCHANGED <<deleted, collection, pc, faults, resp>>

CatalogDelete(oid) ==
    /\ oid \in MongoIds(product_collection)
    /\ product_collection' = {d \in product_collection : d._id # oid}
    /\ deleted' = deleted \cup {oid}
    /\ loc' = Disturb(loc, 0)
    /\ UNCHANGED <<collection, pc, faults, resp>>

---------------------------------------------------------------------------
\* POST /sync: sync_products_to_chroma.  Each access to a store is one step.
\* The test_search call that follows the sync reads the stores and changes
\* nothing, and is left out.

\* The request arrives; all_ids = collection.get()['ids']
SyncClearGet(p) ==
    /\ pc[p] = "idle"
    /\ LET all_ids == ChromaIds(collection)
       IN /\ loc' = [loc EXCEPT ![p] = [IdleLoc EXCEPT !.op = "sync",
                                                    !.all_ids = all_ids,
                                                    !.deleted_at_start = deleted]]
          /\ pc' = [pc EXCEPT ![p] = IF all_ids # {} THEN "fs_delete" ELSE "fs_find"]
    /\ UNCHANGED <<product_collection, deleted, collection, faults, resp>>

\* collection.get() raises: caught and logged, the sync goes on
SyncClearGetFails(p) ==
    /\ pc[p] = "idle"
    /\ faults < MaxFaults
    /\ faults' = faults + 1
    /\ loc' = [loc EXCEPT ![p] = [IdleLoc EXCEPT !.op = "sync",
                                                 !.log = {"clear_error"}]]
    /\ pc' = [pc EXCEPT ![p] = "fs_find"]
    /\ UNCHANGED <<product_collection, deleted, collection, resp>>

\* collection.delete(ids=all_ids)
SyncClearDelete(p) ==
    /\ pc[p] = "fs_delete"
    /\ collection' = ChromaDelete(collection, loc[p].all_ids)
    /\ loc' = Disturb([loc EXCEPT ![p].all_ids = {}], p)
    /\ pc' = [pc EXCEPT ![p] = "fs_find"]
    /\ UNCHANGED <<product_collection, deleted, faults, resp>>

\* collection.delete raises: caught and logged, the sync goes on
SyncClearDeleteFails(p) ==
    /\ pc[p] = "fs_delete"
    /\ faults < MaxFaults
    /\ faults' = faults + 1
    /\ loc' = [loc EXCEPT ![p] = Logged([@ EXCEPT !.all_ids = {}], "clear_error")]
    /\ pc' = [pc EXCEPT ![p] = "fs_find"]
    /\ UNCHANGED <<product_collection, deleted, collection, resp>>

\* products = list(product_collection.find()), and the return on an empty catalog
SyncFind(p) ==
    /\ pc[p] = "fs_find"
    /\ \E products \in find_all(product_collection) :
          IF products = <<>>
          THEN /\ loc' = [loc EXCEPT ![p].ret = "true", ![p].status = 200]
               /\ pc' = [pc EXCEPT ![p] = "fs_done"]
          ELSE /\ loc' = [loc EXCEPT ![p].products = products, ![p].i = 0]
               /\ pc' = [pc EXCEPT ![p] = "fs_batch"]
    /\ UNCHANGED <<product_collection, deleted, collection, faults, resp>>

\* One iteration of the batch loop: process_product_batch(products[i:i + batch_size])
SyncBatch(p) ==
    /\ pc[p] = "fs_batch"
    /\ LET batch == Slice(loc[p].products, loc[p].i, loc[p].i + batch_size)
           next == loc[p].i + batch_size
           last == next >= Len(loc[p].products)
       IN \E failing \in SUBSET {q._id : q \in Embedded(batch)} :
            /\ faults + Cardinality(failing) <= MaxFaults
            /\ faults' = faults + Cardinality(failing)
            /\ collection' = ChromaAdd(collection, process_product_batch(batch, failing))
            /\ LET documents == process_product_batch(batch, failing)
                   l == [loc EXCEPT
                         ![p] = [(IF failing # {} THEN Logged(@, "embed_error") ELSE @)
                                    EXCEPT !.i = IF last THEN 0 ELSE next,
                                           !.products = IF last THEN <<>> ELSE @,
                                           !.ret = IF last THEN "true" ELSE @,
                                           !.status = IF last THEN 200 ELSE @]]
               IN loc' = IF documents # {} THEN Disturb(l, p) ELSE l
            /\ pc' = [pc EXCEPT ![p] = IF last THEN "fs_done" ELSE "fs_batch"]
    /\ UNCHANGED <<product_collection, deleted, resp>>

\* product_collection.find() or collection.add raises: the exception leaves
\* sync_products_to_chroma and the endpoint answers 500
SyncAborts(p) ==
    /\ \/ pc[p] = "fs_find"
       \/ /\ pc[p] = "fs_batch"
          /\ process_product_batch(
                 Slice(loc[p].products, loc[p].i, loc[p].i + batch_size), {}) # {}
    /\ faults < MaxFaults
    /\ faults' = faults + 1
    /\ loc' = [loc EXCEPT ![p] = [Logged(@, "sync_error")
                                     EXCEPT !.products = <<>>, !.i = 0,
                                            !.ret = "false", !.status = 500]]
    /\ pc' = [pc EXCEPT ![p] = "fs_done"]
    /\ UNCHANGED <<product_collection, deleted, collection, resp>>

\* The handler returns its response
Return(p) ==
    /\ pc[p] \in {"fs_done", "so_done", "del_done"}
    /\ pc' = [pc EXCEPT ![p] = "idle"]
    /\ loc' = [loc EXCEPT ![p] = IdleLoc]
    /\ UNCHANGED <<product_collection, deleted, collection, faults, resp>>

---------------------------------------------------------------------------
\* POST /sync-product: sync_single_product

\* Mutant of SyncOneCheck: a product without searchable text is upserted
SyncOneCheck_NoTextCheck(product) ==
    IF product = {} THEN "not_found" ELSE "upsert"

\* The two early returns of sync_single_product
SyncOneCheck(product) ==
    IF product = {} THEN "not_found"
    ELSE IF Strip(searchable_text[CHOOSE d \in product : TRUE]) = <<>>
         THEN "no_searchable_content"
    ELSE "upsert"

\* The request arrives; product = find_one(...), the early returns, the text
SyncOneFind(p, product_id) ==
    /\ pc[p] = "idle"
    /\ LET product == find_one(product_collection, ObjectId(product_id))
           outcome == SyncOneCheck(product)
           request == [IdleLoc EXCEPT !.op = "sync_one", !.product_id = product_id]
       IN IF outcome # "upsert"
          THEN /\ loc' = [loc EXCEPT ![p] = [request EXCEPT !.ret = "false",
                                                          !.status = 500,
                                                          !.log = {outcome}]]
               /\ pc' = [pc EXCEPT ![p] = "so_done"]
          ELSE /\ loc' = [loc EXCEPT ![p] = [request EXCEPT !.product = product]]
               /\ pc' = [pc EXCEPT ![p] = "so_upsert"]
    /\ UNCHANGED <<product_collection, deleted, collection, faults, resp>>

\* ObjectId(product_id) or find_one raises: caught, the sync returns False
SyncOneFindFails(p, product_id) ==
    /\ pc[p] = "idle"
    /\ faults < MaxFaults
    /\ faults' = faults + 1
    /\ loc' = [loc EXCEPT ![p] = [IdleLoc EXCEPT !.op = "sync_one",
                                                 !.product_id = product_id,
                                                 !.ret = "false", !.status = 500,
                                                 !.log = {"sync_error"}]]
    /\ pc' = [pc EXCEPT ![p] = "so_done"]
    /\ UNCHANGED <<product_collection, deleted, collection, resp>>

\* collection.upsert(ids=[str(product_id)], ...)
SyncOneUpsert(p) ==
    /\ pc[p] = "so_upsert"
    /\ collection' =
           ChromaUpsert(collection,
                        IndexedDoc(loc[p].product_id, CHOOSE d \in loc[p].product : TRUE))
    /\ loc' = Disturb([loc EXCEPT ![p].product = {}, ![p].ret = "true",
                                  ![p].status = 200], p)
    /\ pc' = [pc EXCEPT ![p] = "so_done"]
    /\ UNCHANGED <<product_collection, deleted, faults, resp>>

\* model.encode or collection.upsert raises: caught, the sync returns False
SyncOneFails(p) ==
    /\ pc[p] = "so_upsert"
    /\ faults < MaxFaults
    /\ faults' = faults + 1
    /\ loc' = [loc EXCEPT ![p].product = {}, ![p].ret = "false",
                          ![p].status = 500, ![p].log = {"sync_error"}]
    /\ pc' = [pc EXCEPT ![p] = "so_done"]
    /\ UNCHANGED <<product_collection, deleted, collection, resp>>

---------------------------------------------------------------------------
\* POST /delete-product: delete_product_from_chroma

DeleteOne(p, product_id) ==
    /\ pc[p] = "idle"
    /\ collection' = ChromaDelete(collection, {product_id})
    /\ loc' = Disturb([loc EXCEPT ![p] = [IdleLoc EXCEPT !.op = "delete",
                                                         !.product_id = product_id,
                                                         !.ret = "true",
                                                         !.status = 200]], p)
    /\ pc' = [pc EXCEPT ![p] = "del_done"]
    /\ UNCHANGED <<product_collection, deleted, faults, resp>>

\* collection.delete raises: caught, the delete returns False
DeleteOneFails(p, product_id) ==
    /\ pc[p] = "idle"
    /\ faults < MaxFaults
    /\ faults' = faults + 1
    /\ loc' = [loc EXCEPT ![p] = [IdleLoc EXCEPT !.op = "delete",
                                                 !.product_id = product_id,
                                                 !.ret = "false", !.status = 500,
                                                 !.log = {"delete_error"}]]
    /\ pc' = [pc EXCEPT ![p] = "del_done"]
    /\ UNCHANGED <<product_collection, deleted, collection, resp>>

---------------------------------------------------------------------------
\* Ranked Retrieval Engine

\* Inputs of the search requests
Queries == {<<>>, <<"b">>, <<"7">>}

NoFilters == [brand |-> <<>>, category |-> <<>>, gender |-> <<>>, in_stock |-> {}]

FilterInputs == {NoFilters, [NoFilters EXCEPT !.brand = <<"N">>]}

Pages == (0 - 1)..MaxPage

Limits == 0..MaxLimit

\* max_distance of the request; 120 is the default 1.2
MaxDistances == {0, 120}

\* Distances the Vector Index reports
Distances == {0, 50, 130}

calculate_relevance_score(distance, metadata, query, filters) ==
    LET base_score == Max(0, 100 - distance)
        query_lower == LowerStr(query)
        b1 == IF Contains(LowerStr(metadata.name), query_lower) THEN 30 ELSE 0
        b2 == IF Contains(LowerStr(metadata.brand), query_lower) THEN 20 ELSE 0
        b3 == IF Contains(LowerStr(metadata.category), query_lower) THEN 15 ELSE 0
        b4 == IF /\ filters.brand # <<>>
                 /\ Contains(LowerStr(metadata.brand), LowerStr(filters.brand))
              THEN 20 ELSE 0
        b5 == IF /\ filters.category # <<>>
                 /\ Contains(LowerStr(metadata.category), LowerStr(filters.category))
              THEN 20 ELSE 0
        b6 == IF metadata.in_stock THEN 10 ELSE 0
    IN Min(100, base_score + b1 + b2 + b3 + b4 + b5 + b6)

\* The where clause built from the filters, applied to one record's metadata
WhereMatches(metadata, filters) ==
    /\ filters.brand # <<>> => metadata.brand = filters.brand
    /\ filters.category # <<>> => metadata.category = filters.category
    /\ filters.gender # <<>> => metadata.gender = filters.gender
    /\ filters.in_stock # {} => metadata.in_stock \in filters.in_stock

NonDecreasing(seq) == \A k \in 1..(Len(seq) - 1) : seq[k].distance <= seq[k + 1].distance

\* What collection.query may answer before n_results cuts it: the records
\* passing the where clause, each with a distance, nearest first
NeighborLists(coll, filters) ==
    LET matching == {d \in coll : WhereMatches(d.metadata, filters)}
    IN UNION {
         {nbrs \in {[k \in 1..Len(order) |->
                       [id |-> order[k].id, distance |-> dist[order[k].id],
                        metadata |-> order[k].metadata,
                        document |-> order[k].document]]} : NonDecreasing(nbrs)}
         : order \in Perms(matching), dist \in [ChromaIds(matching) -> Distances]}

\* search_limit = min(top_k * 3, 50)
SearchLimit(top_k) == Min(top_k * 3, 50)

\* The loop over results['ids'][0]: the max_distance cut and the score
RECURSIVE Rank(_, _, _, _)
Rank(results, query, filters, max_distance) ==
    IF results = <<>> THEN <<>>
    ELSE LET r == Head(results)
             rest == Rank(Tail(results), query, filters, max_distance)
         IN IF r.distance > max_distance THEN rest
            ELSE <<[product_id |-> r.id,
                    distance |-> r.distance,
                    relevance_score |->
                        calculate_relevance_score(r.distance, r.metadata, query, filters),
                    document |-> r.document,
                    metadata |-> r.metadata]>> \o rest

\* Mutant of InsertDesc: an element is placed before those of equal score
RECURSIVE InsertDesc_Unstable(_, _)
InsertDesc_Unstable(sorted, x) ==
    IF sorted = <<>> THEN <<x>>
    ELSE IF Head(sorted).relevance_score > x.relevance_score
         THEN <<Head(sorted)>> \o InsertDesc_Unstable(Tail(sorted), x)
         ELSE <<x>> \o sorted

\* list.sort(key=relevance_score, reverse=True): stable, equal scores keep their order
RECURSIVE InsertDesc(_, _)
InsertDesc(sorted, x) ==
    IF sorted = <<>> THEN <<x>>
    ELSE IF Head(sorted).relevance_score >= x.relevance_score
         THEN <<Head(sorted)>> \o InsertDesc(Tail(sorted), x)
         ELSE <<x>> \o sorted

RECURSIVE SortDesc(_)
SortDesc(seq) ==
    IF seq = <<>> THEN <<>>
    ELSE InsertDesc(SortDesc(SubSeq(seq, 1, Len(seq) - 1)), seq[Len(seq)])

\* Python's seq[start:end], negative indices counted from the end
PySlice(seq, start, end) ==
    LET n == Len(seq)
        lo == IF start < 0 THEN Max(n + start, 0) ELSE Min(start, n)
        hi == IF end < 0 THEN Max(n + end, 0) ELSE Min(end, n)
    IN SubSeq(seq, lo + 1, hi)

\* Mutant of OrderDocs: the fetched records are returned in the store's order
OrderDocs_StoreOrder(paginated_results, mongo_docs) == mongo_docs

\* ordered_docs: the fetched records in the order of the page, absent ids dropped
RECURSIVE OrderDocs(_, _)
OrderDocs(paginated_results, mongo_docs) ==
    IF paginated_results = <<>> THEN <<>>
    ELSE LET item == Head(paginated_results)
             found == {k \in 1..Len(mongo_docs) :
                         StrOid(mongo_docs[k]._id) = item.product_id}
             rest == OrderDocs(Tail(paginated_results), mongo_docs)
         IN IF found = {} THEN rest
            ELSE <<mongo_docs[CHOOSE k \in found : \A j \in found : j <= k]>> \o rest

EmptyResult(site) ==
    [products |-> <<>>, hits_meta |-> <<>>, total |-> 0, site |-> site, sliced |-> FALSE]

\* product_collection.find({"_id": {"$in": product_ids}}), in any order
FindIn(coll, oids) == Perms({d \in coll : d._id \in oids})

---------------------------------------------------------------------------
\* Fallback search and the /search endpoint

\* {"$regex": pattern, "$options": "i"} on a string field
RegexMatch(value, pattern) == Contains(LowerStr(value), LowerStr(pattern))

\* The mongo_query of fallback_search, applied to one product
FallbackMatches(d, query, filters) ==
    /\ \/ RegexMatch(d.brand, query)
       \/ RegexMatch(d.name, query)
       \/ RegexMatch(d.description, query)
       \/ \E k \in 1..Len(d.tags) : RegexMatch(d.tags[k], query)
       \/ RegexMatch(d.gender, query)
    /\ filters.brand # <<>> => RegexMatch(d.brand, filters.brand)
    /\ filters.category # <<>> => RegexMatch(d.category.name, filters.category)
    /\ filters.gender # <<>> => RegexMatch(d.gender, filters.gender)
    /\ filters.in_stock # {} => d.in_stock \in filters.in_stock

\* cursor.skip(skip).limit(limit): a limit of 0 is no limit
SkipLimit(seq, skip, limit) ==
    IF limit = 0 THEN SubSeq(seq, skip + 1, Len(seq))
    ELSE SubSeq(seq, skip + 1, Min(skip + limit, Len(seq)))

\* math.ceil(total_count / limit)
CeilDiv(a, b) == (a + b - 1) \div b

\* The upstream calls of search_products_improved, each of which may raise:
\* collection.count, model.encode, collection.query and the batch fetch from
\* the Catalog Store
EngineSites == {"index", "embedding", "query", "catalog"}

\* Mutant of NeedsFallback: the fallback is never tried
NeedsFallback_Never(products) == FALSE

\* `if not products:` of ai_search
NeedsFallback(products) == products = <<>>

\* The locals of ai_search for a request, before the engine is called
Blank(request) ==
    [at |-> "done", status |-> 0, request |-> request, nbrs |-> <<>>,
     fails |-> {}, engine |-> EmptyResult("not_called"),
     fallback_failed |-> FALSE, fb_total |-> 0,
     products |-> <<>>, hits_meta |-> <<>>, used_fallback |-> FALSE,
     total |-> 0, total_pages |-> 0, has_next |-> FALSE, has_prev |-> FALSE]

\* The end of ai_search, with its products and total_count: the pagination
\* arithmetic and the response; the division by a limit of 0 raises
Finish(r, products, total_count) ==
    LET page == r.request.page
        limit == r.request.limit
        total_pages == IF total_count > 0 THEN CeilDiv(total_count, limit) ELSE 0
    IN IF total_count > 0 /\ limit = 0
       THEN [r EXCEPT !.at = "done", !.status = 500]
       ELSE [r EXCEPT !.at = "done",
                      !.status = 200,
                      !.products = products,
                      !.hits_meta = r.engine.hits_meta,
                      !.total = total_count,
                      !.total_pages = total_pages,
                      !.has_next = page < total_pages,
                      !.has_prev = page > 1]

\* search_products_improved returns engine to ai_search, which goes on to
\* the fallback or to its response
EngineReturns(r, engine) ==
    LET q == [r EXCEPT !.engine = engine]
    IN IF NeedsFallback(engine.products)
       THEN [q EXCEPT !.at = "fallback_count", !.used_fallback = TRUE]
       ELSE Finish(q, engine.products, engine.total)

\* POST /search arrives: the empty query is refused; the engine starts with
\* collection.count()
SearchCount ==
    /\ resp = NoResp
    /\ \E query \in Queries, page \in Pages, limit \in Limits,
          filters \in FilterInputs, max_distance \in MaxDistances,
          raises \in BOOLEAN :
          LET request == [query |-> query, page |-> page, limit |-> limit,
                          filters |-> filters, max_distance |-> max_distance]
              r == Blank(request)
          IN resp' =
                IF query = <<>> THEN [Blank(request) EXCEPT !.status = 400]
                ELSE IF raises
                     THEN EngineReturns([r EXCEPT !.fails = {"index"}],
                                        EmptyResult("error"))
                ELSE IF Cardinality(collection) = 0
                     THEN EngineReturns(r, EmptyResult("empty_index"))
                ELSE [r EXCEPT !.at = "query"]
    /\ UNCHANGED <<product_collection, deleted, collection, pc, loc, faults>>

\* model.encode(processed_query) and collection.query(...), then the ranking
\* and the slice of the page, which touch no store
SearchQuery ==
    /\ resp.at = "query"
    /\ LET r == resp.request
           search_limit == SearchLimit(r.limit * 2)
       IN \/ \E site \in {"embedding", "query"} :
               resp' = EngineReturns([resp EXCEPT !.fails = {site}],
                                     EmptyResult("error"))
          \/ IF search_limit <= 0
             THEN resp' = EngineReturns(resp, EmptyResult("error"))
             ELSE \E nbrs \in NeighborLists(collection, r.filters) :
                 LET results == SubSeq(nbrs, 1, Min(search_limit, Len(nbrs)))
                     ranked_results ==
                         SortDesc(Rank(results, r.query, r.filters, r.max_distance))
                     start_idx == (r.page - 1) * r.limit
                     end_idx == start_idx + r.limit
                     paginated_results == PySlice(ranked_results, start_idx, end_idx)
                     q == [resp EXCEPT !.nbrs = nbrs]
                 IN resp' =
                       IF results = <<>>
                       THEN EngineReturns(q, EmptyResult("no_results"))
                       ELSE IF ranked_results = <<>>
                            THEN EngineReturns(q, EmptyResult("no_ranked"))
                       ELSE IF paginated_results = <<>>
                            THEN EngineReturns(q, [EmptyResult("empty_page")
                                                      EXCEPT !.sliced = TRUE])
                       ELSE [q EXCEPT !.at = "fetch",
                                      !.engine = [products |-> <<>>,
                                                  hits_meta |-> paginated_results,
                                                  total |-> Len(ranked_results),
                                                  site |-> "fetch",
                                                  sliced |-> TRUE]]
    /\ UNCHANGED <<product_collection, deleted, collection, pc, loc, faults>>

\* product_collection.find({"_id": {"$in": product_ids}}) and the reordering
SearchFetch ==
    /\ resp.at = "fetch"
    /\ LET paginated_results == resp.engine.hits_meta
           product_ids == {ObjectId(paginated_results[k].product_id) :
                              k \in 1..Len(paginated_results)}
       IN \/ resp' = EngineReturns([resp EXCEPT !.fails = {"catalog"}],
                                   [EmptyResult("error") EXCEPT !.sliced = TRUE])
          \/ \E mongo_docs \in FindIn(product_collection, product_ids) :
                 resp' = EngineReturns(resp,
                             [resp.engine EXCEPT
                                 !.products = OrderDocs(paginated_results, mongo_docs),
                                 !.site = "page"])
    /\ UNCHANGED <<product_collection, deleted, collection, pc, loc, faults>>

\* fallback_search: total_count = count_documents(mongo_query); when it
\* raises, the exception is caught and the fallback returns [], 0
FallbackCount ==
    /\ resp.at = "fallback_count"
    /\ LET r == resp.request
           matching == {d \in product_collection : FallbackMatches(d, r.query, r.filters)}
       IN \/ resp' = Finish([resp EXCEPT !.fallback_failed = TRUE,
                                         !.fails = @ \cup {"fallback_count"}],
                            <<>>, 0)
          \/ resp' = [resp EXCEPT !.at = "fallback_find",
                                  !.fb_total = Cardinality(matching)]
    /\ UNCHANGED <<product_collection, deleted, collection, pc, loc, faults>>

\* fallback_search: list(find(mongo_query).skip(skip).limit(limit)), a page of
\* the matching products in the order the store answers in.  When the find
\* raises, as skip does on a negative number, the exception is caught and the
\* fallback returns [], 0: the total counted before is dropped
FallbackFind ==
    /\ resp.at = "fallback_find"
    /\ LET r == resp.request
           matching == {d \in product_collection : FallbackMatches(d, r.query, r.filters)}
           skip == (r.page - 1) * r.limit
       IN \/ resp' = Finish([resp EXCEPT !.fallback_failed = TRUE,
                                         !.fails = @ \cup {"fallback_find"}],
                            <<>>, 0)
          \/ IF skip < 0
             THEN resp' = Finish([resp EXCEPT !.fallback_failed = TRUE], <<>>, 0)
             ELSE \E order \in Perms(matching) :
                    resp' = Finish(resp, SkipLimit(order, skip, r.limit), resp.fb_total)
    /\ UNCHANGED <<product_collection, deleted, collection, pc, loc, faults>>

\* The handler returns its response to the client
Respond ==
    /\ resp.at = "done"
    /\ resp' = NoResp
    /\ UNCHANGED <<product_collection, deleted, collection, pc, loc, faults>>

\* The search in flight has read the Vector Index and will read it again.
\* The writes that run beside a search are explored between two reads of the
\* store they change: a write before the first read leads to a state the
\* search can start from, one after the last read changes no answer.
IndexReadPending == resp.at = "query"

\* The same for the Catalog Store: the batch fetch of the engine, then the
\* count and the find of the fallback
CatalogReadPending ==
    \/ resp.at = "fallback_count" /\ resp.engine.site = "page"
    \/ resp.at = "fallback_find"

\* Writes to the Vector Index by the requests that run beside a search: the
\* collection.delete of /sync and /delete-product
ConcurrentDelete ==
    /\ IndexReadPending
    /\ \E ids \in SUBSET ChromaIds(collection) :
          /\ ids # {}
          /\ collection' = ChromaDelete(collection, ids)
    /\ UNCHANGED <<product_collection, deleted, pc, loc, faults, resp>>

\* The collection.add of /sync and the collection.upsert of /sync-product,
\* of a document derived from a record read from the catalog earlier
ConcurrentUpsert ==
    /\ IndexReadPending
    /\ \E d \in AllProducts :
          /\ Strip(searchable_text[d]) # <<>>
          /\ IndexedDoc(StrOid(d._id), d) \notin collection
          /\ collection' = ChromaUpsert(collection, IndexedDoc(StrOid(d._id), d))
    /\ UNCHANGED <<product_collection, deleted, pc, loc, faults, resp>>

\* Writes to the Catalog Store by the shop beside a search
ConcurrentCatalogWrite ==
    /\ CatalogReadPending
    /\ \/ \E oid \in Oids, b \in BodyIds : CatalogInsert(oid, b)
       \/ \E oid \in Oids, b \in BodyIds : CatalogUpdate(oid, b)
       \/ \E oid \in Oids : CatalogDelete(oid)

---------------------------------------------------------------------------
\* The service under concurrent requests

Init ==
    /\ product_collection = {}
    /\ deleted = {}
    /\ collection = {}
    /\ pc = [p \in Procs |-> "idle"]
    /\ loc = [p \in Procs |-> IdleLoc]
    /\ faults = 0
    /\ resp = NoResp

CatalogStep ==
    \/ \E oid \in Oids, b \in BodyIds : CatalogInsert(oid, b)
    \/ \E oid \in Oids, b \in BodyIds : CatalogUpdate(oid, b)
    \/ \E oid \in Oids : CatalogDelete(oid)

ProcStep(p) ==
    \/ SyncClearGet(p)
    \/ SyncClearGetFails(p)
    \/ SyncClearDelete(p)
    \/ SyncClearDeleteFails(p)
    \/ SyncFind(p)
    \/ SyncBatch(p)
    \/ SyncAborts(p)
    \/ \E product_id \in ProductIds : SyncOneFind(p, product_id)
    \/ \E product_id \in ProductIds : SyncOneFindFails(p, product_id)
    \/ SyncOneUpsert(p)
    \/ SyncOneFails(p)
    \/ \E product_id \in ProductIds : DeleteOne(p, product_id)
    \/ \E product_id \in ProductIds : DeleteOneFails(p, product_id)
    \/ Return(p)

Next ==
    \/ CatalogStep
    \/ \E p \in Procs : ProcStep(p)

Spec == Init /\ [][Next]_vars

---------------------------------------------------------------------------
\* The /search endpoint against every content of the two stores

\* The records the Sync Engine can have written for an id
IndexContents ==
    {docs \in SUBSET {IndexedDoc(StrOid(d._id), d) :
                        d \in {q \in AllProducts : Strip(searchable_text[q]) # <<>>}} :
        \A x \in docs, y \in docs : x.id = y.id => x = y}

CatalogContents ==
    {prods \in SUBSET AllProducts : \A x \in prods, y \in prods : x._id = y._id => x = y}

InitSearch ==
    /\ product_collection \in CatalogContents
    /\ collection \in IndexContents
    /\ deleted = {ObjectId(id) : id \in ChromaIds(collection)} \ MongoIds(product_collection)
    /\ pc = [p \in Procs |-> "idle"]
    /\ loc = [p \in Procs |-> IdleLoc]
    /\ faults = 0
    /\ resp = NoResp

NextSearch ==
    \/ SearchCount
    \/ SearchQuery
    \/ SearchFetch
    \/ FallbackCount
    \/ FallbackFind
    \/ Respond
    \/ ConcurrentCatalogWrite
    \/ ConcurrentDelete
    \/ ConcurrentUpsert

SpecSearch == InitSearch /\ [][NextSearch]_vars

---------------------------------------------------------------------------
\* Properties

\* The products of the Catalog Store whose searchable text is not empty
Searchable(coll) == {d \in coll : Strip(searchable_text[d]) # <<>>}

\* A full sync that has completed and logged no error
CleanSyncDone(p) ==
    /\ pc[p] = "fs_done"
    /\ loc[p].status = 200
    /\ loc[p].log = {}

\* C1: when a full sync has completed without errors, and no other write to
\* the catalog or the index fell between its first store access and now, the
\* indexed documents are, one each, those of the catalog's products with
\* non-empty searchable text, whatever the index held before, in whatever
\* order the catalog answered, and also for an empty catalog.
C1_FullSyncMirrorsCatalog ==
    \A p \in Procs :
        (CleanSyncDone(p) /\ ~loc[p].disturbed) =>
            /\ ChromaIds(collection) =
                   {StrOid(d._id) : d \in Searchable(product_collection)}
            /\ Cardinality(collection) = Cardinality(Searchable(product_collection))

\* A clean full sync over a catalog holding a product with searchable text and
\* a product without
C1_Witness ==
    \E p \in Procs :
        /\ CleanSyncDone(p)
        /\ ~loc[p].disturbed
        /\ Searchable(product_collection) # {}
        /\ product_collection \ Searchable(product_collection) # {}

\* C2: once a product is deleted from the catalog and a full sync that began
\* after the deletion has completed (without errors), the index holds no
\* document with that id, in every interleaving of the requests.
C2_NoStaleDocAfterFullSync ==
    \A p \in Procs :
        CleanSyncDone(p) =>
            \A oid \in loc[p].deleted_at_start :
                StrOid(oid) \notin ChromaIds(collection)

\* A full sync is in flight from its first store access to its last
SyncInFlight(p) == pc[p] \in {"fs_delete", "fs_find", "fs_batch"}

\* C3: at most one full sync is in flight at any time.
C3_FullSyncSerialized ==
    Cardinality({p \in Procs : SyncInFlight(p)}) <= 1

\* The engine ran for the request answered, on valid pagination and with
\* every upstream call succeeding
EngineRan ==
    /\ resp.at = "done"
    /\ resp.status # 400
    /\ resp.fails \cap EngineSites = {}
    /\ resp.request.page >= 1
    /\ resp.request.limit >= 1

\* The neighbors of the last request that survive the max_distance cut
Survivors ==
    LET r == resp.request
        results == SubSeq(resp.nbrs, 1, Min(SearchLimit(r.limit * 2), Len(resp.nbrs)))
    IN {k \in 1..Len(results) : results[k].distance <= r.max_distance}

\* The ranked candidates of the requested page of the last request
RankedPage ==
    LET r == resp.request
        results == SubSeq(resp.nbrs, 1, Min(SearchLimit(r.limit * 2), Len(resp.nbrs)))
    IN PySlice(SortDesc(Rank(results, r.query, r.filters, r.max_distance)),
               (r.page - 1) * r.limit, (r.page - 1) * r.limit + r.limit)

\* C4: the total the engine returns is the number of candidates that survive
\* the max_distance cut, for every page and limit.
C4_TotalCountsSurvivors ==
    EngineRan => resp.engine.total = Cardinality(Survivors)

\* C5: when at least one candidate survives the max_distance cut, the
\* fallback is not invoked.
C5_FallbackOnlyWithoutCandidates ==
    (EngineRan /\ Survivors # {}) => ~resp.used_fallback

\* C6: an empty query, a page below 1 or a limit below 1 is rejected before
\* the engine touches a store or computes a slice.
C6_InvalidRequestRejected ==
    (/\ resp.at = "done"
     /\ \/ resp.request.query = <<>>
        \/ resp.request.page < 1
        \/ resp.request.limit < 1)
    => (/\ resp.status = 400
        /\ resp.engine.site = "not_called"
        /\ ~resp.engine.sliced)

\* The catalog's records of the candidates, in their order, absent ids dropped
RECURSIVE Resolve(_, _)
Resolve(candidates, coll) ==
    IF candidates = <<>> THEN <<>>
    ELSE LET found == find_one(coll, ObjectId(Head(candidates).product_id))
         IN (IF found = {} THEN <<>> ELSE <<CHOOSE d \in found : TRUE>>)
            \o Resolve(Tail(candidates), coll)

\* The step in which the engine fetches the page's products from the catalog,
\* for a request with valid pagination and every upstream call succeeding
FetchStep ==
    /\ resp.at = "fetch"
    /\ resp'.at # "fetch"
    /\ resp'.fails \cap EngineSites = {}
    /\ resp.request.page >= 1
    /\ resp.request.limit >= 1

\* C7: the products the engine returns are the records the catalog holds,
\* when the engine fetches them, of the page's ranked candidates, in ranked
\* order, the candidates absent from the catalog dropped; in whatever order
\* the catalog answers the fetch.  The fetch is made whenever the page has a
\* candidate.
C7_ProductsFollowRankedPage ==
    /\ [](EngineRan /\ RankedPage # <<>> => resp.engine.site = "page")
    /\ [][FetchStep =>
             resp'.engine.products = Resolve(RankedPage, product_collection)]_vars

\* A page of two candidates ranked against the store's order, both resolved
C7_Witness ==
    /\ EngineRan
    /\ Len(resp.engine.products) = 2
    /\ resp.engine.products[1]._id > resp.engine.products[2]._id

\* C8: the scored candidates returned are as many as the products, and the
\* i-th carries the id of the i-th product.
C8_HitsMatchProducts ==
    EngineRan =>
        /\ Len(resp.engine.hits_meta) = Len(resp.engine.products)
        /\ \A k \in 1..Len(resp.engine.products) :
              resp.engine.hits_meta[k].product_id = StrOid(resp.engine.products[k]._id)

\* The step in which thread p's single-product sync writes to the index
UpsertStep(p) == pc[p] = "so_upsert" /\ pc'[p] = "so_done" /\ loc'[p].ret = "true"

\* C9: the upsert of a single-product sync leaves exactly one document with
\* the id, derived from the record the request read, which had searchable
\* text; that is the catalog's current record unless the shop wrote the
\* product after the read.  The documents of other ids are left alone.
C9_SyncOneReplaces ==
    [][\A p \in Procs :
         UpsertStep(p) =>
            LET id == loc[p].product_id
                read == loc[p].product
                current == find_one(product_collection, ObjectId(id))
            IN /\ Cardinality(read) = 1
               /\ Strip(searchable_text[CHOOSE d \in read : TRUE]) # <<>>
               /\ Cardinality({d \in collection' : d.id = id}) = 1
               /\ \A d \in collection' :
                     d.id = id => d = IndexedDoc(id, CHOOSE r \in read : TRUE)
               /\ current = read =>
                     {d \in collection' : d.id = id} =
                         {IndexedDoc(id, CHOOSE r \in current : TRUE)}
               /\ {d \in collection' : d.id # id} = {d \in collection : d.id # id}]_vars

\* A single-product sync has succeeded, beside a document of another id; the
\* document it wrote is that of the catalog's record
C9_Witness ==
    \E p \in Procs :
        /\ pc[p] = "so_done"
        /\ loc[p].ret = "true"
        /\ \E d \in find_one(product_collection, ObjectId(loc[p].product_id)) :
              IndexedDoc(loc[p].product_id, d) \in collection
        /\ ChromaIds(collection) \ {loc[p].product_id} # {}

\* The step in which thread p's single-product sync reads the catalog and
\* the catalog answers
FindStep(p) == pc[p] = "idle" /\ loc'[p].op = "sync_one" /\ faults' = faults

\* C10: a single-product sync of an id the catalog lacks fails as not found,
\* one of a product without searchable text fails as having no searchable
\* content; both return the failure and write nothing to the index.
C10_SyncOneFailures ==
    [][\A p \in Procs :
         FindStep(p) =>
            LET product == find_one(product_collection, ObjectId(loc'[p].product_id))
                failed(reason) == /\ pc'[p] = "so_done"
                                  /\ loc'[p].ret = "false"
                                  /\ loc'[p].status = 500
                                  /\ loc'[p].log = {reason}
                                  /\ collection' = collection
            IN /\ product = {} => failed("not_found")
               /\ (product # {} /\ Searchable(product) = {})
                      => failed("no_searchable_content")]_vars

\* The failure for lack of searchable content has been returned, the document
\* indexed earlier for the product still in the index
C10_Witness ==
    \E p \in Procs :
        /\ pc[p] = "so_done"
        /\ loc[p].ret = "false"
        /\ loc[p].log = {"no_searchable_content"}
        /\ loc[p].product_id \in ChromaIds(collection)

\* The step in which thread p's delete request removes its id from the index
DeleteStep(p) == pc[p] = "idle" /\ loc'[p].op = "delete" /\ loc'[p].ret = "true"

\* The ids the Vector Index can return for a query over coll
Returnable(coll) ==
    UNION {{nbrs[k].id : k \in 1..Len(nbrs)} :
             nbrs \in UNION {NeighborLists(coll, f) : f \in FilterInputs}}

\* C11: a delete of one id succeeds whether or not the id is indexed; after
\* it no document has the id and no query can return it, the documents of
\* other ids are unchanged, a delete of an id that is not indexed changes
\* nothing, and deleting the id once more would change nothing.
C11_DeleteOneIdempotent ==
    [][\A p \in Procs :
         DeleteStep(p) =>
            LET id == loc'[p].product_id
            IN /\ loc'[p].status = 200
               /\ id \notin ChromaIds(collection')
               /\ id \notin Returnable(collection')
               /\ {d \in collection' : d.id # id} = {d \in collection : d.id # id}
               /\ id \notin ChromaIds(collection) => collection' = collection
               /\ ChromaDelete(collection', {id}) = collection']_vars

\* A delete has succeeded for a catalogued product with searchable text,
\* beside the document of another id
C11_Witness ==
    \E p \in Procs :
        /\ pc[p] = "del_done"
        /\ loc[p].ret = "true"
        /\ Searchable(find_one(product_collection, ObjectId(loc[p].product_id))) # {}
        /\ loc[p].product_id \notin ChromaIds(collection)
        /\ collection # {}

\* The step in which thread p's full sync processes one batch
BatchStep(p) ==
    /\ pc[p] = "fs_batch"
    /\ loc'[p].status # 500
    /\ pc'[p] = "fs_done" \/ loc'[p].i # loc[p].i

\* Product q's document is in the index after the step: written by it, or
\* kept from before when the id was already stored
WrittenNext(q) ==
    /\ StrOid(q._id) \in ChromaIds(collection')
    /\ StrOid(q._id) \notin ChromaIds(collection)
          => IndexedDoc(StrOid(q._id), q) \in collection'

\* C12: in a full sync, a failing embedding loses its own product only.  In
\* each batch step the products with searchable text that are not written are
\* at most as many as the embeddings that failed in it, and the loop goes on
\* to the next batch, or ends the sync with success after the last; and had
\* the product whose embedding failed in the step been handed to
\* process_product_batch in one batch with all the fetched products, every
\* other product with searchable text would be handed on to the index.
C12_EmbeddingFailureIsLocal ==
    [][\A p \in Procs :
         BatchStep(p) =>
            LET products == loc[p].products
                i == loc[p].i
                batch == Slice(products, i, i + batch_size)
            IN /\ Cardinality({q \in Embedded(batch) : ~WrittenNext(q)})
                      <= faults' - faults
               /\ IF i + batch_size < Len(products)
                  THEN /\ pc'[p] = "fs_batch"
                       /\ loc'[p].products = products
                       /\ loc'[p].i = i + batch_size
                  ELSE /\ pc'[p] = "fs_done"
                       /\ loc'[p].status = 200
               /\ faults' # faults =>
                     \A q \in {e \in Embedded(batch) : ~WrittenNext(e)} :
                        {IndexedDoc(StrOid(d._id), d) : d \in Embedded(products) \ {q}}
                           \subseteq process_product_batch(products, {q._id})]_vars

\* A full sync has ended with success after an embedding failed: the product
\* it failed for is not indexed, another product of the catalog is
C12_Witness ==
    \E p \in Procs :
        /\ pc[p] = "fs_done"
        /\ loc[p].status = 200
        /\ "embed_error" \in loc[p].log
        /\ \E q \in Searchable(product_collection) :
              StrOid(q._id) \notin ChromaIds(collection)
        /\ \E q \in Searchable(product_collection) :
              IndexedDoc(StrOid(q._id), q) \in collection

\* An upstream call of the engine raised during the request answered, made
\* with a query and valid pagination: the count of the Vector Index, the
\* embedding of the query, the query of the Vector Index, or the batch fetch
\* from the Catalog Store
SearchFailed ==
    /\ resp.at = "done"
    /\ resp.status # 400
    /\ resp.request.page >= 1
    /\ resp.request.limit >= 1
    /\ resp.fails \cap EngineSites # {}

\* C13: when an upstream call of the engine raises, the engine returns the
\* empty result ([], [], 0) and the endpoint runs the keyword fallback; unless
\* the fallback fails too the request is answered with success, carrying the
\* fallback's total.
C13_SearchFailureDegrades ==
    SearchFailed =>
        /\ resp.engine.products = <<>>
        /\ resp.engine.hits_meta = <<>>
        /\ resp.engine.total = 0
        /\ resp.used_fallback
        /\ ~resp.fallback_failed =>
              /\ resp.status = 200
              /\ resp.total = resp.fb_total
              /\ resp.hits_meta = <<>>

\* The batch fetch of the engine raised and the fallback answered with products
C13_Witness ==
    /\ SearchFailed
    /\ resp.fails = {"catalog"}
    /\ resp.status = 200
    /\ resp.used_fallback
    /\ resp.products # <<>>

\* The neighbors the Vector Index returned for the last request, after the
\* n_results cut
Results ==
    SubSeq(resp.nbrs, 1, Min(SearchLimit(resp.request.limit * 2), Len(resp.nbrs)))

\* The relevance score of the k-th neighbor returned
ScoreOf(k) ==
    calculate_relevance_score(Results[k].distance, Results[k].metadata,
                              resp.request.query, resp.request.filters)

\* The place of the k-th neighbor in the ranking the claim describes: after
\* the survivors of higher score and the survivors of equal score that the
\* Vector Index returned before it
PlaceOf(k) ==
    1 + Cardinality({j \in Survivors :
                        \/ ScoreOf(j) > ScoreOf(k)
                        \/ ScoreOf(j) = ScoreOf(k) /\ j < k})

\* The ranked list built for the last request
RankedList ==
    SortDesc(Rank(Results, resp.request.query, resp.request.filters,
                  resp.request.max_distance))

\* C14: the ranked list holds exactly the neighbors within max_distance, each
\* once with its distance and score, by score descending, equal scores in the
\* order the Vector Index returned them; the place of every candidate is so
\* fixed by the request and the index's answer, and the scored candidates
\* returned are the requested page of that list.
C14_RankingStableAndDetermined ==
    EngineRan =>
        /\ Len(RankedList) = Cardinality(Survivors)
        /\ \A k \in Survivors :
              /\ RankedList[PlaceOf(k)].product_id = Results[k].id
              /\ RankedList[PlaceOf(k)].distance = Results[k].distance
              /\ RankedList[PlaceOf(k)].relevance_score = ScoreOf(k)
        /\ \A j \in 1..Len(RankedList), k \in 1..Len(RankedList) :
              j < k => RankedList[j].relevance_score >= RankedList[k].relevance_score
        /\ resp.engine.hits_meta =
              PySlice(RankedList, (resp.request.page - 1) * resp.request.limit,
                      (resp.request.page - 1) * resp.request.limit + resp.request.limit)

\* Two candidates of equal score were returned in the order of the Vector
\* Index, which is not the order of their ids
C14_Witness ==
    /\ EngineRan
    /\ Len(resp.engine.hits_meta) = 2
    /\ resp.engine.hits_meta[1].relevance_score = resp.engine.hits_meta[2].relevance_score
    /\ resp.engine.hits_meta[1].product_id = resp.nbrs[1].id
    /\ ObjectId(resp.engine.hits_meta[1].product_id) >
          ObjectId(resp.engine.hits_meta[2].product_id)

====
